---- MODULE Spec2Model ----
(***************************************************************************)
(* Model of the load-and-assertion harness of the identity-auth service:   *)
(*   src/pressure-test.py                          (LoadTester, main)       *)
(*   src/platform/identity-auth/test-hash-concurrency-extreme.py            *)
(*   src/scripts/test/load-login.py                                         *)
(* The target service is an external collaborator: every request resolves  *)
(* with a nondeterministically chosen event (an HTTP response, a transport  *)
(* failure or a timeout).  One behaviour is one run of one of the three     *)
(* programs, selected by prog.                                              *)
(***************************************************************************)
EXTENDS Integers, Sequences, FiniteSets, TLC

VARIABLES
    prog,          \* which script runs: "pressure", "extreme" or "loadlogin"
    pc,            \* position of the main coroutine / main function
    tasks,         \* the coroutines handed to asyncio.gather, one record each
    gathered,      \* the local `results` returned by asyncio.gather
    counts,        \* the locals successes / hash_busy / rate_limited / errors
    semCap,        \* initial value of the asyncio.Semaphore sem
    sem,           \* current value of the asyncio.Semaphore sem
    conns,         \* connections in use of the TCPConnector
    results,       \* LoadTester.results
    replay,        \* locals of test_replay_detection_with_ip
    statuses,      \* local statuses of test_rate_limiting / status codes seen by load-login
    i,             \* loop index of the sequential loops
    phase,         \* position inside the body of the sequential loops
    issued,        \* number of requests the sequential loop has issued
    slept,         \* number of inter-request delays that have elapsed
    exitStatus,    \* process exit status, NoExit while running
    mtext,         \* get_metrics: the lines of the exposition text, text.split('\n')
    mhttp,         \* get_metrics: status of the response, NoStatus when there is none
    mpos,          \* get_metrics: index of the line the for loop is at
    metrics,       \* get_metrics: the local dict metrics
    mstate,        \* get_metrics: "idle", "called", "parsing", "returned" or "raised"
    mexc,          \* get_metrics: the exception that left it, "none" otherwise
    pctLst,        \* pct: the argument lst
    pctSorted,     \* pct: the local lst after lst=sorted(lst)
    pctP,          \* pct: the argument p
    pctK,          \* pct: the local k
    pctOut,        \* pct: the value returned
    pctState       \* pct: "idle", "called", "sorted", "indexed", "returned" or "raised"

\* the state of a call of get_metrics
mvars == <<mtext, mhttp, mpos, metrics, mstate, mexc>>

\* the state of a call of pct
pvars == <<pctLst, pctSorted, pctP, pctK, pctOut, pctState>>

\* the state of the two functions that are followed step by step
auxvars == <<mvars, pvars>>

vars == <<prog, pc, tasks, gathered, counts, semCap, sem, conns, results,
          replay, statuses, i, phase, issued, slept, exitStatus, auxvars>>

(***************************************************************************)
(* Sizes.  The scripts fan out 100, 60 and 200 requests and loop 200       *)
(* times; the model keeps the structure and scales the counts.             *)
(***************************************************************************)
NJwks == 2
NHash == 3
NExt == 3
NLoad == 3
NumLogins == 10

NoExit == -1
NoStatus == -1

(***************************************************************************)
(* Events by which the target resolves a request.                          *)
(***************************************************************************)
Response(s, b) == [kind |-> "response", status |-> s, body |-> b]
TransportFailure == [kind |-> "transport", status |-> NoStatus, body |-> "none"]
Timeout == [kind |-> "timeout", status |-> NoStatus, body |-> "none"]
NoEvent == [kind |-> "none", status |-> NoStatus, body |-> "none"]

\* bodies of GET /.well-known/jwks.json: a JSON object with a non-empty key
\* list, with an empty one, without "keys", a JSON array, or no JSON at all
JwksBodies == {"keys_nonempty", "keys_empty", "no_keys", "json_list", "text"}
JwksEvents ==
    {Response(s, b) : s \in {200, 503}, b \in JwksBodies}
        \cup {TransportFailure, Timeout}

\* bodies of POST /api/auth/register: a JSON object, a JSON object carrying
\* the hash_busy marker, or a body that is not JSON
RegisterBodies == {"json", "json_hash_busy", "text"}
RegisterEvents ==
    {Response(s, b) : s \in {200, 429, 503}, b \in RegisterBodies}
        \cup {TransportFailure, Timeout}

(***************************************************************************)
(* Values a coroutine of a batch produces.                                 *)
(*   kind "tuple": the pair (status, body) of register_user                *)
(*   kind "dict" : the parsed JSON object of fetch_jwks                    *)
(*   kind "other": parsed JSON that is not an object                       *)
(*   kind "exc"  : an exception (raised by the coroutine)                  *)
(***************************************************************************)
Tuple(s, b, e) == [kind |-> "tuple", status |-> s, body |-> b, error |-> e]
Dict(b) == [kind |-> "dict", status |-> NoStatus, body |-> b, error |-> "none"]
Other(b) == [kind |-> "other", status |-> NoStatus, body |-> b, error |-> "none"]
Exc(e) == [kind |-> "exc", status |-> NoStatus, body |-> "none", error |-> e]
NoResult == [kind |-> "none", status |-> NoStatus, body |-> "none", error |-> "none"]

\* the exception a resolved request raises inside `async with session...`,
\* "none" when it raises nothing: resp.json() raises on a body that is not JSON
Raised(ev) ==
    CASE ev.kind = "transport" -> "ClientConnectorError"
      [] ev.kind = "timeout" -> "TimeoutError"
      [] ev.kind = "response" /\ ev.body = "text" -> "ContentTypeError"
      [] OTHER -> "none"

\* str(e): asyncio.TimeoutError carries no message
ErrorText(e) ==
    CASE e = "TimeoutError" -> ""
      [] e = "ClientConnectorError" -> "Cannot connect to host"
      [] e = "ContentTypeError" -> "Attempt to decode JSON with unexpected mimetype"
      [] OTHER -> "none"

\* fetch_jwks: returns await resp.json(), catches nothing
FetchJwksResult(ev) ==
    IF Raised(ev) # "none" THEN Exc(Raised(ev))
    ELSE IF ev.body = "json_list" THEN Other(ev.body)
    ELSE Dict(ev.body)

\* register_user without its `except Exception`: the exception leaves the coroutine
RegisterUserResult_NoCatch(ev) ==
    IF Raised(ev) # "none" THEN Exc(Raised(ev))
    ELSE Tuple(ev.status, ev.body, "none")

\* register_user of pressure-test.py: (resp.status, await resp.json()), and
\* (0, {"error": str(e)}) on any Exception
RegisterUserResult(ev) ==
    IF Raised(ev) # "none" THEN Tuple(0, "error_dict", ErrorText(Raised(ev)))
    ELSE Tuple(ev.status, ev.body, "none")

\* register_user of test-hash-concurrency-extreme.py: as above, with
\* asyncio.TimeoutError reported as {"error": "timeout"}
ExtRegisterUserResult(ev) ==
    IF Raised(ev) = "TimeoutError" THEN Tuple(0, "error_dict", "timeout")
    ELSE IF Raised(ev) # "none" THEN Tuple(0, "error_dict", ErrorText(Raised(ev)))
    ELSE Tuple(ev.status, ev.body, "none")

(***************************************************************************)
(* Batches.                                                                *)
(***************************************************************************)
NewTask == [st |-> "pending", ev |-> NoEvent, res |-> NoResult]
NewBatch(n) == [k \in 1..n |-> NewTask]
NoCounts == [successes |-> 0, hash_busy |-> 0, rate_limited |-> 0, errors |-> 0]
NoReplay == [first_refresh |-> NoStatus, replay_status |-> NoStatus,
             has_replay_log |-> FALSE, has_client_ip |-> FALSE]

Unresolved(t) == {k \in DOMAIN t : t[k].st # "done"}
InFlight(t) == {k \in DOMAIN t : t[k].st = "inflight"}

\* a wait that returns at the first finished awaitable
GatherReady_FirstCompleted(t) == \E k \in DOMAIN t : t[k].st = "done"

\* asyncio.gather(*tasks): returns once every awaitable has finished
GatherReady(t) == Unresolved(t) = {}

\* a result list that keeps only the requests that got an HTTP response
GatherResults_DropFailed(t) ==
    SelectSeq([k \in DOMAIN t |-> t[k].res],
              LAMBDA r : r.kind # "exc" /\ r.status # 0)

\* the list asyncio.gather returns: one entry per awaitable, in order
GatherResults(t) == [k \in DOMAIN t |-> t[k].res]

\* sum(1 for r in results if ...): flags[k] tells whether entry k satisfies the condition
CountTrue(flags) == Cardinality({k \in DOMAIN flags : flags[k]})

TestResult(n, ok) == [name |-> n, success |-> ok]

\* register_user takes the gate as its argument; main passes
\* Semaphore(CONCURRENCY) for a batch of CONCURRENCY requests.  The capacity
\* is drawn from 1..NExt: NExt is main's own configuration, the smaller
\* values are the gates under which requests have to wait for a permit.
Init ==
    /\ prog \in {"pressure", "extreme", "loadlogin"}
    /\ pc = CASE prog = "pressure" -> "jwks_start"
              [] prog = "extreme" -> "ext_start"
              [] OTHER -> "ll_loop"
    /\ tasks = <<>>
    /\ gathered = <<>>
    /\ counts = NoCounts
    /\ semCap \in IF prog = "extreme" THEN 1..NExt ELSE {0}
    /\ sem = semCap
    /\ conns = 0
    /\ results = <<>>
    /\ replay = NoReplay
    /\ statuses = <<>>
    /\ i = 0
    /\ phase = "top"
    /\ issued = 0
    /\ slept = 0
    /\ exitStatus = NoExit
    /\ mtext = <<>>
    /\ mhttp = NoStatus
    /\ mpos = 0
    /\ metrics = <<>>
    /\ mstate = "idle"
    /\ mexc = "none"
    /\ pctLst = <<>>
    /\ pctSorted = <<>>
    /\ pctP = 0
    /\ pctK = 0
    /\ pctOut = 0
    /\ pctState = "idle"

(***************************************************************************)
(* An exception that leaves run_all_tests leaves main and asyncio.run: the *)
(* interpreter prints the traceback and the process exits with status 1.   *)
(***************************************************************************)
Propagate ==
    /\ pc' = "crashed"
    /\ exitStatus' = 1

\* asyncio.gather without return_exceptions re-raises the first exception
\* of an awaitable to its awaiter; with return_exceptions it never raises
GatherRaises(t, return_exceptions) ==
    /\ ~return_exceptions
    /\ \E k \in DOMAIN t : t[k].st = "done" /\ t[k].res.kind = "exc"

\* get_metrics as far as the scenarios of this part use it: it returns a
\* snapshot or raises (endpoint unreachable, float() of a malformed value)
GetMetricsOutcomes == {"snapshot", "raises"}

(***************************************************************************)
(* pressure-test.py, Test 1: test_jwks_endpoint_load                       *)
(***************************************************************************)
IsJwksSuccess(r) == r.kind = "dict" /\ r.body \in {"keys_nonempty", "keys_empty"}

JwksSpawn ==
    /\ pc = "jwks_start"
    /\ tasks' = NewBatch(NJwks)
    /\ pc' = "jwks_gather"
    /\ UNCHANGED <<auxvars, prog, gathered, counts, semCap, sem, conns, results, replay,
                   statuses, i, phase, issued, slept, exitStatus>>

FetchJwksIssue(k) ==
    /\ pc = "jwks_gather"
    /\ tasks[k].st = "pending"
    /\ tasks' = [tasks EXCEPT ![k].st = "inflight"]
    /\ UNCHANGED <<auxvars, prog, pc, gathered, counts, semCap, sem, conns, results,
                   replay, statuses, i, phase, issued, slept, exitStatus>>

FetchJwksResolve(k) ==
    /\ pc = "jwks_gather"
    /\ tasks[k].st = "inflight"
    /\ \E ev \in JwksEvents :
        tasks' = [tasks EXCEPT ![k] =
                    [st |-> "done", ev |-> ev, res |-> FetchJwksResult(ev)]]
    /\ UNCHANGED <<auxvars, prog, pc, gathered, counts, semCap, sem, conns, results,
                   replay, statuses, i, phase, issued, slept, exitStatus>>

JwksGather ==
    /\ pc = "jwks_gather"
    /\ IF GatherRaises(tasks, TRUE)
       THEN Propagate /\ UNCHANGED gathered
       ELSE /\ GatherReady(tasks)
            /\ gathered' = GatherResults(tasks)
            /\ pc' = "jwks_classify"
            /\ UNCHANGED exitStatus
    /\ UNCHANGED <<auxvars, prog, tasks, counts, semCap, sem, conns, results, replay,
                   statuses, i, phase, issued, slept>>

JwksClassify ==
    /\ pc = "jwks_classify"
    /\ counts' = [counts EXCEPT !.successes =
        CountTrue([k \in DOMAIN gathered |-> IsJwksSuccess(gathered[k])])]
    /\ results' = Append(results,
                    TestResult("JWKS Load Test", counts'.successes = NJwks))
    /\ pc' = "jwks_return"
    /\ UNCHANGED <<auxvars, prog, tasks, gathered, semCap, sem, conns, replay, statuses,
                   i, phase, issued, slept, exitStatus>>

JwksReturn ==
    /\ pc = "jwks_return"
    /\ tasks' = <<>>
    /\ gathered' = <<>>
    /\ counts' = NoCounts
    /\ pc' = "hash_metrics_before"
    /\ UNCHANGED <<auxvars, prog, semCap, sem, conns, results, replay, statuses, i,
                   phase, issued, slept, exitStatus>>

(***************************************************************************)
(* pressure-test.py, Test 2: test_hash_concurrency_limit                   *)
(***************************************************************************)
IsStatus200(r) == r.status = 200
\* a busy test that looks at the body marker only
IsHashBusy_MarkerOnly(r) == r.body = "json_hash_busy"

\* a busy test that looks at the status only
IsHashBusy_StatusOnly(r) == r.status = 503

IsHashBusy(r) == r.status = 503 \/ r.body = "json_hash_busy"

HashMetricsBefore ==
    /\ pc = "hash_metrics_before"
    /\ \E m \in GetMetricsOutcomes :
        IF m = "raises" THEN Propagate
        ELSE pc' = "hash_start" /\ UNCHANGED exitStatus
    /\ UNCHANGED <<auxvars, prog, tasks, gathered, counts, semCap, sem, conns, results,
                   replay, statuses, i, phase, issued, slept>>

HashSpawn ==
    /\ pc = "hash_start"
    /\ tasks' = NewBatch(NHash)
    /\ pc' = "hash_gather"
    /\ UNCHANGED <<auxvars, prog, gathered, counts, semCap, sem, conns, results, replay,
                   statuses, i, phase, issued, slept, exitStatus>>

RegisterUserIssue(k) ==
    /\ pc = "hash_gather"
    /\ tasks[k].st = "pending"
    /\ tasks' = [tasks EXCEPT ![k].st = "inflight"]
    /\ UNCHANGED <<auxvars, prog, pc, gathered, counts, semCap, sem, conns, results,
                   replay, statuses, i, phase, issued, slept, exitStatus>>

RegisterUserResolve(k) ==
    /\ pc = "hash_gather"
    /\ tasks[k].st = "inflight"
    /\ \E ev \in RegisterEvents :
        tasks' = [tasks EXCEPT ![k] =
                    [st |-> "done", ev |-> ev, res |-> RegisterUserResult(ev)]]
    /\ UNCHANGED <<auxvars, prog, pc, gathered, counts, semCap, sem, conns, results,
                   replay, statuses, i, phase, issued, slept, exitStatus>>

HashGather ==
    /\ pc = "hash_gather"
    /\ IF GatherRaises(tasks, FALSE)
       THEN Propagate /\ UNCHANGED gathered
       ELSE /\ GatherReady(tasks)
            /\ gathered' = GatherResults(tasks)
            /\ pc' = "hash_classify"
            /\ UNCHANGED exitStatus
    /\ UNCHANGED <<auxvars, prog, tasks, counts, semCap, sem, conns, results, replay,
                   statuses, i, phase, issued, slept>>

HashClassify ==
    /\ pc = "hash_classify"
    /\ counts' = [counts EXCEPT !.successes =
        CountTrue([k \in DOMAIN gathered |-> IsStatus200(gathered[k])]),
                                !.hash_busy =
                                    CountTrue([k \in DOMAIN gathered |-> IsHashBusy(gathered[k])])]
    /\ pc' = "hash_metrics_after"
    /\ UNCHANGED <<auxvars, prog, tasks, gathered, semCap, sem, conns, results, replay,
                   statuses, i, phase, issued, slept, exitStatus>>

HashMetricsAfter ==
    /\ pc = "hash_metrics_after"
    /\ \E m \in GetMetricsOutcomes :
        IF m = "raises" THEN Propagate /\ UNCHANGED results
        ELSE /\ results' = Append(results,
                    TestResult("Hash Concurrency Limiting", counts.hash_busy > 0))
             /\ pc' = "hash_return"
             /\ UNCHANGED exitStatus
    /\ UNCHANGED <<auxvars, prog, tasks, gathered, counts, semCap, sem, conns, replay,
                   statuses, i, phase, issued, slept>>

HashReturn ==
    /\ pc = "hash_return"
    /\ tasks' = <<>>
    /\ gathered' = <<>>
    /\ counts' = NoCounts
    /\ pc' = "replay_register"
    /\ UNCHANGED <<auxvars, prog, semCap, sem, conns, results, replay, statuses, i,
                   phase, issued, slept, exitStatus>>

(***************************************************************************)
(* pressure-test.py, Test 3: test_replay_detection_with_ip                 *)
(***************************************************************************)
SetupEvents ==
    {Response(200, "json"), Response(429, "json"), Response(503, "json"),
     TransportFailure, Timeout}

\* POST /api/auth/login: a JSON object with or without "refresh_token", or
\* a body that is not JSON
LoginBodies == {"token", "no_token", "text"}
TokenLoginEvents ==
    {Response(s, b) : s \in {200, 401}, b \in LoginBodies}
        \cup {TransportFailure, Timeout}

RefreshStatuses == {200, 401, 500}
RefreshEvents ==
    {Response(s, "json") : s \in RefreshStatuses} \cup {TransportFailure, Timeout}

\* /tmp/auth-rs-v1_4.log: absent (open raises), or present with or without
\* 'refresh_replay_detected' and the client address
LogFiles ==
    {[present |-> FALSE, has_replay_log |-> FALSE, has_client_ip |-> FALSE]}
        \cup {[present |-> TRUE, has_replay_log |-> a, has_client_ip |-> b] :
                a \in BOOLEAN, b \in BOOLEAN}

ReplayRegister ==
    /\ pc = "replay_register"
    /\ \E ev \in SetupEvents :
        IF Raised(ev) # "none" THEN Propagate
        ELSE /\ pc' = IF ev.status # 200 THEN "rate_register" ELSE "replay_login"
             /\ UNCHANGED exitStatus
    /\ UNCHANGED <<auxvars, prog, tasks, gathered, counts, semCap, sem, conns, results,
                   replay, statuses, i, phase, issued, slept>>

ReplayLogin ==
    /\ pc = "replay_login"
    /\ \E ev \in TokenLoginEvents :
        IF Raised(ev) # "none" THEN Propagate
        ELSE /\ pc' = IF ev.body = "no_token" THEN "rate_register" ELSE "replay_first"
             /\ UNCHANGED exitStatus
    /\ UNCHANGED <<auxvars, prog, tasks, gathered, counts, semCap, sem, conns, results,
                   replay, statuses, i, phase, issued, slept>>

ReplayFirstRefresh ==
    /\ pc = "replay_first"
    /\ \E ev \in RefreshEvents :
        IF Raised(ev) # "none" THEN Propagate /\ UNCHANGED replay
        ELSE /\ replay' = [replay EXCEPT !.first_refresh = ev.status]
             /\ pc' = "replay_second"
             /\ UNCHANGED exitStatus
    /\ UNCHANGED <<auxvars, prog, tasks, gathered, counts, semCap, sem, conns, results,
                   statuses, i, phase, issued, slept>>

ReplaySecondRefresh ==
    /\ pc = "replay_second"
    /\ \E ev \in RefreshEvents :
        IF Raised(ev) # "none" THEN Propagate /\ UNCHANGED replay
        ELSE /\ replay' = [replay EXCEPT !.replay_status = ev.status]
             /\ pc' = "replay_log"
             /\ UNCHANGED exitStatus
    /\ UNCHANGED <<auxvars, prog, tasks, gathered, counts, semCap, sem, conns, results,
                   statuses, i, phase, issued, slept>>

ReplayLogAndResult ==
    /\ pc = "replay_log"
    /\ \E f \in LogFiles :
        IF ~f.present THEN Propagate /\ UNCHANGED <<replay, results>>
        ELSE /\ replay' = [replay EXCEPT !.has_replay_log = f.has_replay_log,
                                         !.has_client_ip = f.has_client_ip]
             /\ results' = Append(results,
                    TestResult("Replay Detection with Client IP",
                               /\ replay.replay_status = 401
                               /\ f.has_replay_log
                               /\ f.has_client_ip))
             /\ pc' = "replay_return"
             /\ UNCHANGED exitStatus
    /\ UNCHANGED <<auxvars, prog, tasks, gathered, counts, semCap, sem, conns, statuses,
                   i, phase, issued, slept>>

ReplayReturn ==
    /\ pc = "replay_return"
    /\ replay' = NoReplay
    /\ pc' = "rate_register"
    /\ UNCHANGED <<auxvars, prog, tasks, gathered, counts, semCap, sem, conns, results,
                   statuses, i, phase, issued, slept, exitStatus>>

(***************************************************************************)
(* Sequential loops: `for i in range(n)` issuing one request per           *)
(* iteration and pausing after it.                                         *)
(***************************************************************************)
LoginStatuses == {200, 429}

\* LOGIN_PER_MIN_PER_EMAIL: "limit is 5 per minute", "expected after 5th request"
LoginThreshold == 5
LoginEvents == {Response(s, "json") : s \in LoginStatuses} \cup {TransportFailure, Timeout}

\* a loop that does not wait for its pause before the next request
CanIssueNext_NoDelay(ph) == ph \in {"top", "sleeping"}

\* the loop body starts its request at the top of an iteration only
CanIssueNext(ph) == ph = "top"

(***************************************************************************)
(* pressure-test.py, Test 4: test_rate_limiting                            *)
(***************************************************************************)
IsStatus429(st) == st = 429
IsOk(st) == st = 200

RateRegister ==
    /\ pc = "rate_register"
    /\ \E ev \in SetupEvents :
        IF Raised(ev) # "none" THEN Propagate
        ELSE /\ pc' = IF ev.status # 200 THEN "validate_metrics" ELSE "rate_loop"
             /\ UNCHANGED exitStatus
    /\ UNCHANGED <<auxvars, prog, tasks, gathered, counts, semCap, sem, conns, results,
                   replay, statuses, i, phase, issued, slept>>

RateIssue ==
    /\ pc = "rate_loop"
    /\ i < NumLogins
    /\ issued < NumLogins
    /\ CanIssueNext(phase)
    /\ phase' = "inflight"
    /\ issued' = issued + 1
    /\ UNCHANGED <<auxvars, prog, pc, tasks, gathered, counts, semCap, sem, conns,
                   results, replay, statuses, i, slept, exitStatus>>

RateResolve ==
    /\ pc = "rate_loop"
    /\ phase = "inflight"
    /\ \E ev \in LoginEvents :
        IF Raised(ev) # "none" THEN Propagate /\ UNCHANGED <<statuses, phase>>
        ELSE /\ statuses' = Append(statuses, ev.status)
             /\ phase' = "sleeping"
             /\ UNCHANGED <<pc, exitStatus>>
    /\ UNCHANGED <<auxvars, prog, tasks, gathered, counts, semCap, sem, conns, results,
                   replay, i, issued, slept>>

RateDelay ==
    /\ pc = "rate_loop"
    /\ phase = "sleeping"
    /\ slept' = slept + 1
    /\ i' = i + 1
    /\ phase' = "top"
    /\ UNCHANGED <<auxvars, prog, pc, tasks, gathered, counts, semCap, sem, conns,
                   results, replay, statuses, issued, exitStatus>>

RateClassify ==
    /\ pc = "rate_loop"
    /\ phase = "top"
    /\ i = NumLogins
    /\ counts' = [counts EXCEPT !.successes =
        CountTrue([k \in DOMAIN statuses |-> IsOk(statuses[k])]),
                                !.rate_limited =
                                    CountTrue([k \in DOMAIN statuses |-> IsStatus429(statuses[k])])]
    /\ results' = Append(results,
                    TestResult("Rate Limiting", counts'.rate_limited > 0))
    /\ pc' = "rate_return"
    /\ UNCHANGED <<auxvars, prog, tasks, gathered, semCap, sem, conns, replay, statuses,
                   i, phase, issued, slept, exitStatus>>

RateReturn ==
    /\ pc = "rate_return"
    /\ statuses' = <<>>
    /\ counts' = NoCounts
    /\ i' = 0
    /\ issued' = 0
    /\ slept' = 0
    /\ pc' = "validate_metrics"
    /\ UNCHANGED <<auxvars, prog, tasks, gathered, semCap, sem, conns, results, replay,
                   phase, exitStatus>>

(***************************************************************************)
(* pressure-test.py, Test 5: validate_metrics                              *)
(***************************************************************************)
RequiredMetrics ==
    {"auth_register_total", "auth_login_total", "auth_refresh_total",
     "auth_http_request_duration_seconds"}

ValidateMetrics ==
    /\ pc = "validate_metrics"
    /\ \E m \in GetMetricsOutcomes :
        IF m = "raises" THEN Propagate /\ UNCHANGED results
        ELSE /\ \E found \in SUBSET RequiredMetrics :
                    results' = Append(results,
                        TestResult("Metrics Validation", Cardinality(found) >= 3))
             /\ pc' = "summary"
             /\ UNCHANGED exitStatus
    /\ UNCHANGED <<auxvars, prog, tasks, gathered, counts, semCap, sem, conns, replay,
                   statuses, i, phase, issued, slept>>

(***************************************************************************)
(* pressure-test.py: the summary of run_all_tests and main                 *)
(***************************************************************************)
IsPassed(r) == r.success

\* sys.exit(0 if success else 1), success being passed == total_tests
ExitCode(rs) == IF CountTrue([k \in DOMAIN rs |-> IsPassed(rs[k])]) = Len(rs) THEN 0 ELSE 1

RunSummary ==
    /\ pc = "summary"
    /\ exitStatus' = ExitCode(results)
    /\ pc' = "exited"
    /\ UNCHANGED <<auxvars, prog, tasks, gathered, counts, semCap, sem, conns, results,
                   replay, statuses, i, phase, issued, slept>>

(***************************************************************************)
(* test-hash-concurrency-extreme.py                                        *)
(***************************************************************************)
\* TCPConnector(limit=CONCURRENCY)
ConnLimit == NExt

\* a gate that never blocks
SemCanAcquire_Never_Blocks(v) == TRUE

\* asyncio.Semaphore: acquire proceeds only while the value is positive
SemCanAcquire(v) == v > 0

\* a release that is skipped when the request timed out
SemAfterExit_LeakOnTimeout(v, ev) == IF ev.kind = "timeout" THEN v ELSE v + 1

\* `async with sem` releases the permit however the block is left
SemAfterExit(v, ev) == v + 1

IsStatus0(r) == r.status = 0
IsRateLimited(r) == r.status = 429

ExtSpawn ==
    /\ pc = "ext_start"
    /\ tasks' = NewBatch(NExt)
    /\ pc' = "ext_gather"
    /\ UNCHANGED <<auxvars, prog, gathered, counts, semCap, sem, conns, results, replay,
                   statuses, i, phase, issued, slept, exitStatus>>

ExtAcquire(k) ==
    /\ pc = "ext_gather"
    /\ tasks[k].st = "pending"
    /\ SemCanAcquire(sem)
    /\ sem' = sem - 1
    /\ tasks' = [tasks EXCEPT ![k].st = "acquired"]
    /\ UNCHANGED <<auxvars, prog, pc, gathered, counts, semCap, conns, results, replay,
                   statuses, i, phase, issued, slept, exitStatus>>

ExtIssue(k) ==
    /\ pc = "ext_gather"
    /\ tasks[k].st = "acquired"
    /\ conns < ConnLimit
    /\ conns' = conns + 1
    /\ tasks' = [tasks EXCEPT ![k].st = "inflight"]
    /\ UNCHANGED <<auxvars, prog, pc, gathered, counts, semCap, sem, results, replay,
                   statuses, i, phase, issued, slept, exitStatus>>

ExtResolve(k) ==
    /\ pc = "ext_gather"
    /\ tasks[k].st = "inflight"
    /\ \E ev \in RegisterEvents :
        /\ tasks' = [tasks EXCEPT ![k] =
                    [st |-> "done", ev |-> ev, res |-> ExtRegisterUserResult(ev)]]
        /\ sem' = SemAfterExit(sem, ev)
    /\ conns' = conns - 1
    /\ UNCHANGED <<auxvars, prog, pc, gathered, counts, semCap, results, replay,
                   statuses, i, phase, issued, slept, exitStatus>>

ExtGather ==
    /\ pc = "ext_gather"
    /\ IF GatherRaises(tasks, FALSE)
       THEN Propagate /\ UNCHANGED gathered
       ELSE /\ GatherReady(tasks)
            /\ gathered' = GatherResults(tasks)
            /\ pc' = "ext_classify"
            /\ UNCHANGED exitStatus
    /\ UNCHANGED <<auxvars, prog, tasks, counts, semCap, sem, conns, results, replay,
                   statuses, i, phase, issued, slept>>

ExtClassify ==
    /\ pc = "ext_classify"
    /\ counts' = [successes |->
        CountTrue([k \in DOMAIN gathered |-> IsStatus200(gathered[k])]),
                  hash_busy |->
                      CountTrue([k \in DOMAIN gathered |-> IsHashBusy(gathered[k])]),
                  rate_limited |->
                      CountTrue([k \in DOMAIN gathered |-> IsRateLimited(gathered[k])]),
                  errors |->
                      CountTrue([k \in DOMAIN gathered |-> IsStatus0(gathered[k])])]
    /\ pc' = "ext_metrics"
    /\ UNCHANGED <<auxvars, prog, tasks, gathered, semCap, sem, conns, results, replay,
                   statuses, i, phase, issued, slept, exitStatus>>

\* the closing GET /metrics: main returns, or the request raises
ExtMetrics ==
    /\ pc = "ext_metrics"
    /\ \E m \in GetMetricsOutcomes :
        IF m = "raises" THEN Propagate
        ELSE pc' = "exited" /\ exitStatus' = 0
    /\ UNCHANGED <<auxvars, prog, tasks, gathered, counts, semCap, sem, conns, results,
                   replay, statuses, i, phase, issued, slept>>

(***************************************************************************)
(* load-login.py: main                                                     *)
(***************************************************************************)
LLIssue ==
    /\ pc = "ll_loop"
    /\ i < NLoad
    /\ issued < NLoad
    /\ CanIssueNext(phase)
    /\ phase' = "inflight"
    /\ issued' = issued + 1
    /\ UNCHANGED <<auxvars, prog, pc, tasks, gathered, counts, semCap, sem, conns,
                   results, replay, statuses, i, slept, exitStatus>>

LLResolve ==
    /\ pc = "ll_loop"
    /\ phase = "inflight"
    /\ \E ev \in LoginEvents :
        IF Raised(ev) # "none" THEN Propagate /\ UNCHANGED <<statuses, phase>>
        ELSE /\ statuses' = Append(statuses, ev.status)
             /\ phase' = "sleeping"
             /\ UNCHANGED <<pc, exitStatus>>
    /\ UNCHANGED <<auxvars, prog, tasks, gathered, counts, semCap, sem, conns, results,
                   replay, i, issued, slept>>

LLDelay ==
    /\ pc = "ll_loop"
    /\ phase = "sleeping"
    /\ slept' = slept + 1
    /\ i' = i + 1
    /\ phase' = "top"
    /\ UNCHANGED <<auxvars, prog, pc, tasks, gathered, counts, semCap, sem, conns,
                   results, replay, statuses, issued, exitStatus>>

LLReport ==
    /\ pc = "ll_loop"
    /\ phase = "top"
    /\ i = NLoad
    /\ pc' = "exited"
    /\ exitStatus' = 0
    /\ UNCHANGED <<auxvars, prog, tasks, gathered, counts, semCap, sem, conns, results,
                   replay, statuses, i, phase, issued, slept>>

Next ==
    \/ JwksSpawn
    \/ \E k \in DOMAIN tasks : FetchJwksIssue(k)
    \/ \E k \in DOMAIN tasks : FetchJwksResolve(k)
    \/ JwksGather
    \/ JwksClassify
    \/ JwksReturn
    \/ HashMetricsBefore
    \/ HashSpawn
    \/ \E k \in DOMAIN tasks : RegisterUserIssue(k)
    \/ \E k \in DOMAIN tasks : RegisterUserResolve(k)
    \/ HashGather
    \/ HashClassify
    \/ HashMetricsAfter
    \/ HashReturn
    \/ ReplayRegister
    \/ ReplayLogin
    \/ ReplayFirstRefresh
    \/ ReplaySecondRefresh
    \/ ReplayLogAndResult
    \/ ReplayReturn
    \/ RateRegister
    \/ RateIssue
    \/ RateResolve
    \/ RateDelay
    \/ RateClassify
    \/ RateReturn
    \/ ValidateMetrics
    \/ RunSummary
    \/ ExtSpawn
    \/ \E k \in DOMAIN tasks : ExtAcquire(k)
    \/ \E k \in DOMAIN tasks : ExtIssue(k)
    \/ \E k \in DOMAIN tasks : ExtResolve(k)
    \/ ExtGather
    \/ ExtClassify
    \/ ExtMetrics
    \/ LLIssue
    \/ LLResolve
    \/ LLDelay
    \/ LLReport

Spec == Init /\ [][Next]_vars

(***************************************************************************)
(* Properties                                                              *)
(***************************************************************************)
JwksBatchPcs == {"jwks_gather", "jwks_classify", "jwks_return"}
HashBatchPcs == {"hash_gather", "hash_classify", "hash_metrics_after", "hash_return"}
ExtBatchPcs == {"ext_gather", "ext_classify", "ext_metrics"}
GatherPcs == {"jwks_gather", "hash_gather", "ext_gather"}
\* positions at or after the classification of the outcomes of a batch
JoinedPcs ==
    {"jwks_classify", "jwks_return", "hash_classify", "hash_metrics_after",
     "hash_return", "ext_classify", "ext_metrics"}

\* the number of requests the running batch was given
Submitted ==
    CASE pc \in JwksBatchPcs -> NJwks
      [] pc \in HashBatchPcs -> NHash
      [] pc \in ExtBatchPcs -> NExt
      [] OTHER -> 0

PermitHolders == {k \in DOMAIN tasks : tasks[k].st \in {"acquired", "inflight"}}
ResolvedBy(kind) == {k \in DOMAIN tasks : tasks[k].st = "done" /\ tasks[k].ev.kind = kind}

\* C1: in the gated fan-out (register_user under `async with sem`), for every
\* capacity C of the gate and a batch of N >= C requests, the number of
\* requests that have issued their network call and are not yet resolved is at
\* most C in every reachable state; a request without a permit has not issued.
C1_InFlightWithinCeiling ==
    prog = "extreme" =>
        /\ Cardinality(InFlight(tasks)) <= semCap
        /\ InFlight(tasks) \subseteq PermitHolders
        /\ Cardinality(PermitHolders) <= semCap

C1_Witness ==
    /\ prog = "extreme"
    /\ semCap < NExt
    /\ Cardinality(InFlight(tasks)) = semCap
    /\ \E k \in DOMAIN tasks : tasks[k].st = "pending"
    /\ \E k \in DOMAIN tasks : tasks[k].st = "done"

\* C2: once a fan-out batch has been joined, the list of outcomes holds exactly
\* one outcome per submitted request, the outcome of request k at position k,
\* whatever mix of successes, rejections, transport failures and timeouts occurred.
C2_OneOutcomePerRequest ==
    pc \in JoinedPcs =>
        /\ Len(gathered) = Submitted
        /\ \A k \in 1..Submitted :
            /\ gathered[k] = tasks[k].res
            /\ gathered[k].kind # "none"

C2_Witness ==
    /\ pc = "hash_classify"
    /\ Len(gathered) = NHash
    /\ ResolvedBy("transport") # {}
    /\ ResolvedBy("timeout") # {}
    /\ \E k \in DOMAIN tasks : tasks[k].res.status = 200

\* C3: batch completion is a join barrier: the main coroutine is at or past the
\* step that classifies the outcomes only when no request of the batch is
\* unresolved, and the counters are written only in such a state.
C3_JoinBarrier ==
    /\ pc \in JoinedPcs => (tasks # <<>> /\ Unresolved(tasks) = {})
    /\ counts # NoCounts /\ pc \in JwksBatchPcs \cup HashBatchPcs \cup ExtBatchPcs
            => Unresolved(tasks) = {}

C3_Witness ==
    /\ pc = "hash_metrics_after"
    /\ counts.successes >= 1
    /\ counts.hash_busy >= 1
    /\ Unresolved(tasks) = {}

\* C4: every request that acquires a permit of the gate gives it back on
\* every exit path: the free permits always equal the capacity minus the
\* requests inside the gated block, and equal the capacity once the batch
\* has completed.
C4_PermitsReturned ==
    prog = "extreme" =>
        /\ sem = semCap - Cardinality(PermitHolders)
        /\ (tasks # <<>> /\ Unresolved(tasks) = {}) => sem = semCap

C4_Witness ==
    /\ prog = "extreme"
    /\ pc = "ext_classify"
    /\ sem = semCap
    /\ ResolvedBy("transport") # {}
    /\ ResolvedBy("timeout") # {}
    /\ ResolvedBy("response") # {}

C5_Recorded ==
    /\ \A k \in ResolvedBy("transport") :
        IF pc \in JwksBatchPcs
        THEN tasks[k].res = Exc("ClientConnectorError")
        ELSE /\ tasks[k].res.kind = "tuple"
             /\ tasks[k].res.status = 0
             /\ tasks[k].res.body = "error_dict"
             /\ tasks[k].res.error \notin {"none", ""}
    /\ (pc \in JoinedPcs /\ ResolvedBy("transport") # {}) =>
        \A k \in DOMAIN tasks :
            /\ tasks[k].st = "done"
            /\ tasks[k].res.kind # "none"
            /\ gathered[k] = tasks[k].res

C5_NoAbort ==
    (pc \in GatherPcs /\ ResolvedBy("transport") # {}) =>
        /\ pc' \in GatherPcs \cup JoinedPcs
        /\ DOMAIN tasks' = DOMAIN tasks
        /\ \A k \in DOMAIN tasks : tasks[k].st = "done" => tasks'[k] = tasks[k]

C6_TimeoutDescribed ==
    pc \in HashBatchPcs \cup ExtBatchPcs =>
        \A k \in ResolvedBy("timeout") :
            /\ tasks[k].res.status = 0
            /\ tasks[k].res.error = "timeout"

\* C7: a response of the target with a non-2xx status, whatever its body,
\* gives a registration outcome that carries that status, never status 0.
C7_RejectionKeepsStatus ==
    pc \in HashBatchPcs \cup ExtBatchPcs =>
        \A k \in ResolvedBy("response") :
            tasks[k].ev.status \notin 200..299 =>
                tasks[k].res.status = tasks[k].ev.status

ScenarioNames ==
    <<"JWKS Load Test", "Hash Concurrency Limiting",
      "Replay Detection with Client IP", "Rate Limiting", "Metrics Validation">>

ResultsOf(name) == {k \in DOMAIN results : results[k].name = name}

\* the number of scenarios that have returned when the main coroutine is at pc
ScenariosReturned ==
    CASE pc \in {"jwks_start"} \cup JwksBatchPcs -> 0
      [] pc \in {"hash_metrics_before", "hash_start"} \cup HashBatchPcs -> 1
      [] pc \in {"replay_register", "replay_login", "replay_first",
                 "replay_second", "replay_log", "replay_return"} -> 2
      [] pc \in {"rate_register", "rate_loop", "rate_return"} -> 3
      [] pc = "validate_metrics" -> 4
      [] OTHER -> 5

\* C8: every scenario of the run appends exactly one TestResult, also when its
\* setup fails; no exception leaves a scenario, so every scenario that has
\* returned has its result and after the run there is one entry per scenario.
C8_OneResultPerScenario ==
    prog = "pressure" =>
        /\ pc # "crashed"
        /\ \A n \in 1..ScenariosReturned : Cardinality(ResultsOf(ScenarioNames[n])) = 1

\* C9: the exit status is 0 exactly when every scenario of the run met its
\* pass condition, and 1 otherwise.
C9_ExitStatusIffAllPassed ==
    (prog = "pressure" /\ exitStatus # NoExit) =>
        (exitStatus = 0 <=>
            \A n \in DOMAIN ScenarioNames :
                \E k \in ResultsOf(ScenarioNames[n]) : results[k].success)

C10_AtMostOneInFlight ==
    /\ issued - Len(statuses) \in {0, 1}
    /\ issued - Len(statuses) = 1 <=> phase = "inflight"

C10_IssueAfterDelay ==
    issued' = issued + 1 =>
        /\ Len(statuses) = issued
        /\ slept = issued
        /\ Len(statuses') = issued

\* C10: in the sequential loops (test_rate_limiting, load-login) at most one
\* request is in flight at any time, and a request is issued only when every
\* earlier request has resolved and the pause after each of them has elapsed.
C10_SequentialWithDelay == [](C10_AtMostOneInFlight) /\ [][C10_IssueAfterDelay]_vars

C10_Witness ==
    /\ pc = "rate_loop"
    /\ phase = "inflight"
    /\ issued = 3
    /\ slept = 2
    /\ Len(statuses) = 2

(***************************************************************************)
(* The hash-concurrency scenario against a mock target that admits at most *)
(* ServerLimit registrations at a time: a request that arrives while       *)
(* ServerLimit admitted requests are unanswered is answered 503, any other *)
(* request is admitted and answered 200.  The answer of a request is fixed *)
(* when it arrives and is delivered when the request resolves.             *)
(***************************************************************************)
ServerLimit == 2

MockAdmitted(t) == {k \in DOMAIN t : t[k].st = "inflight" /\ t[k].ev.status = 200}

MockAnswer(t) ==
    IF Cardinality(MockAdmitted(t)) >= ServerLimit
    THEN Response(503, "json")
    ELSE Response(200, "json")

MockRegisterIssue(k) ==
    /\ pc = "hash_gather"
    /\ tasks[k].st = "pending"
    /\ tasks' = [tasks EXCEPT ![k].st = "inflight", ![k].ev = MockAnswer(tasks)]
    /\ UNCHANGED <<auxvars, prog, pc, gathered, counts, semCap, sem, conns, results,
                   replay, statuses, i, phase, issued, slept, exitStatus>>

MockRegisterResolve(k) ==
    /\ pc = "hash_gather"
    /\ tasks[k].st = "inflight"
    /\ tasks' = [tasks EXCEPT ![k].st = "done",
                              ![k].res = RegisterUserResult(tasks[k].ev)]
    /\ UNCHANGED <<auxvars, prog, pc, gathered, counts, semCap, sem, conns, results,
                   replay, statuses, i, phase, issued, slept, exitStatus>>

\* run_all_tests about to fan out the registrations, the JWKS scenario done
InitMock ==
    /\ prog = "pressure"
    /\ pc = "hash_start"
    /\ tasks = <<>>
    /\ gathered = <<>>
    /\ counts = NoCounts
    /\ semCap = 0
    /\ sem = 0
    /\ conns = 0
    /\ results \in {<<TestResult("JWKS Load Test", b)>> : b \in BOOLEAN}
    /\ replay = NoReplay
    /\ statuses = <<>>
    /\ i = 0
    /\ phase = "top"
    /\ issued = 0
    /\ slept = 0
    /\ exitStatus = NoExit
    /\ mtext = <<>>
    /\ mhttp = NoStatus
    /\ mpos = 0
    /\ metrics = <<>>
    /\ mstate = "idle"
    /\ mexc = "none"
    /\ pctLst = <<>>
    /\ pctSorted = <<>>
    /\ pctP = 0
    /\ pctK = 0
    /\ pctOut = 0
    /\ pctState = "idle"

NextMock ==
    \/ HashSpawn
    \/ \E k \in DOMAIN tasks : MockRegisterIssue(k)
    \/ \E k \in DOMAIN tasks : MockRegisterResolve(k)
    \/ HashGather
    \/ HashClassify
    \/ HashMetricsAfter
    \/ HashReturn

SpecMock == InitMock /\ [][NextMock]_vars

HashCountedPcs == {"hash_metrics_after", "hash_return"}
AnsweredWith(s) == {k \in DOMAIN tasks : tasks[k].ev.status = s}

\* C11 (as stated): against the mock target the scenario counts
\* hash_busy >= 1 and successes + hash_busy = N in every interleaving.
C11_AlwaysBusy ==
    pc \in HashCountedPcs =>
        /\ counts.hash_busy >= 1
        /\ counts.successes + counts.hash_busy = NHash

\* C11 (amended): against the mock target successes + hash_busy = N in every
\* interleaving, successes and hash_busy count the requests answered 200 and
\* 503, and hash_busy is at most N - limit; whenever all N requests are in
\* flight together exactly max(N - limit, 0) of them are being answered 503,
\* so hash_busy >= 1 in those interleavings, while it is 0 when the requests
\* are answered before limit of them are in flight together.
C11_BusyWhenOverlapping ==
    /\ pc \in HashCountedPcs =>
        /\ counts.successes + counts.hash_busy = NHash
        /\ counts.successes = Cardinality(AnsweredWith(200))
        /\ counts.hash_busy = Cardinality(AnsweredWith(503))
        /\ counts.hash_busy <= IF NHash > ServerLimit THEN NHash - ServerLimit ELSE 0
    /\ (pc = "hash_gather" /\ InFlight(tasks) = DOMAIN tasks) =>
        Cardinality(AnsweredWith(503)) =
            IF NHash > ServerLimit THEN NHash - ServerLimit ELSE 0

C11_Witness ==
    /\ pc = "hash_metrics_after"
    /\ counts.hash_busy >= 1
    /\ counts.successes >= 1
    /\ counts.successes + counts.hash_busy = NHash

LastResult == results[Len(results)]

\* C12: the TestResult of the hash-concurrency scenario has success = TRUE
\* exactly when at least one outcome of the batch has status 503 or a body
\* with the hash_busy marker; a batch without such an outcome gives a
\* TestResult with success = FALSE.
C12_SuccessIffBusySignal ==
    pc = "hash_return" =>
        /\ LastResult.name = "Hash Concurrency Limiting"
        /\ LastResult.success <=>
            \E k \in DOMAIN gathered :
                gathered[k].status = 503 \/ gathered[k].body = "json_hash_busy"

C12_Witness ==
    /\ pc = "hash_return"
    /\ LastResult.name = "Hash Concurrency Limiting"
    /\ ~LastResult.success
    /\ \E k \in DOMAIN gathered : gathered[k].status = 429
    /\ \E k \in DOMAIN gathered : gathered[k].status = 0

\* C13: the replay-detection scenario reports success only if the first use
\* of the refresh token returned a 2xx status and the second use returned 401.
C13_SuccessNeedsFirstRefresh ==
    (pc = "replay_return" /\ LastResult.success) =>
        /\ replay.first_refresh \in 200..299
        /\ replay.replay_status = 401

\* C14: the verdict of the replay-detection scenario does not need the log:
\* once both refreshes are answered the scenario produces its TestResult also
\* when the log file is absent, and a first refresh answered 200 followed by a
\* replay answered 401 is reported as passed whatever the log holds.
C14_VerdictWithoutLog ==
    prog = "pressure" =>
        /\ replay.replay_status # NoStatus => pc # "crashed"
        /\ (pc = "replay_return" /\ replay.first_refresh = 200
                /\ replay.replay_status = 401) => LastResult.success

\* C15: the rate-limiting scenario reports success exactly when at least one
\* attempt beyond the threshold (attempts LoginThreshold+1 .. NumLogins)
\* returned 429.
C15_SuccessIffLimitedBeyondThreshold ==
    pc = "rate_return" =>
        (LastResult.success <=>
            \E k \in (LoginThreshold + 1)..NumLogins : statuses[k] = 429)

\* C16: the JWKS-load scenario reports success exactly when every request of
\* the batch got a response that parsed as JSON with a non-empty key list.
C16_SuccessIffAllKeysNonEmpty ==
    pc = "jwks_return" =>
        (LastResult.success <=>
            \A k \in DOMAIN tasks :
                /\ tasks[k].ev.kind = "response"
                /\ tasks[k].ev.body = "keys_nonempty")

(***************************************************************************)
(* pressure-test.py: get_metrics.  A line of the exposition text is the    *)
(* sequence of its whitespace-separated tokens:                            *)
(*   Word(w)   : the characters w, no brace, not a number                  *)
(*   Labeled(n): n{label="value"}, the metric name n followed by a label   *)
(*               set                                                       *)
(*   Num(v)    : a token float() accepts, of value v                       *)
(*   Hash      : '#'                                                       *)
(* No line starts with whitespace and a brace occurs in the first token    *)
(* only.                                                                   *)
(***************************************************************************)
MaxLines == 3

Word(w) == [kind |-> "word", text |-> w, val |-> 0]
Labeled(n) == [kind |-> "labeled", text |-> n, val |-> 0]
Num(v) == [kind |-> "num", text |-> "", val |-> v]
Hash == [kind |-> "hash", text |-> "#", val |-> 0]

\* the metric names of the texts that begin with 'auth_'
AuthNames == {"auth_login_total"}

MetricLines ==
    {<<Word("auth_login_total"), Num(42)>>,
     <<Word("auth_login_total"), Num(7)>>,
     <<Labeled("auth_login_total"), Num(1)>>,
     <<Labeled("auth_login_total"), Word("abc")>>,
     <<Word("auth_login_total"), Word("abc")>>,
     <<Word("auth_login_total"), Word("bar"), Word("baz")>>,
     <<Word("foo"), Word("bar"), Word("baz")>>,
     <<Word("http_requests_total"), Num(5)>>,
     <<Hash, Word("HELP")>>,
     <<>>}

RECURSIVE TextsOfLength(_)
TextsOfLength(n) ==
    IF n = 0 THEN {<<>>}
    ELSE {Append(t, l) : t \in TextsOfLength(n - 1), l \in MetricLines}

MetricTexts == UNION {TextsOfLength(n) : n \in 0..MaxLines}

\* the metrics endpoint answers with a status and a text, or not at all
MetricStatuses == {200, 503, NoStatus}

\* a prefix test that accepts every line
StartsWithAuth_AnyName(line) == line # <<>>

\* line.startswith('auth_')
StartsWithAuth(line) ==
    /\ line # <<>>
    /\ line[1].kind \in {"word", "labeled"}
    /\ line[1].text \in AuthNames

\* line.startswith('#')
StartsWithHash(line) == line # <<>> /\ line[1].kind = "hash"

\* '{' in line
HasBrace(line) == \E k \in DOMAIN line : line[k].kind = "labeled"

\* line.split('{')[0]
NameBeforeBrace(line) == line[1].text

\* float(token): a value, or ValueError
IsNumeric(tok) == tok.kind = "num"
Float(tok) == tok.val

\* the two shapes of an entry of the dict: a list of values, a bare float
ListEntry(vs) == [kind |-> "list", vals |-> vs]
FloatEntry(v) == [kind |-> "float", vals |-> <<v>>]

\* metrics[k] = e
Put(m, k, e) == [n \in (DOMAIN m) \cup {k} |-> IF n = k THEN e ELSE m[n]]

Parsed(m) == [m |-> m, exc |-> "none"]
ParseRaises(m, e) == [m |-> m, exc |-> e]

\* the body of `for line in text.split('\n')` on the dict m
ParseLine(m, line) ==
    IF ~StartsWithAuth(line) THEN Parsed(m)
    ELSE IF HasBrace(line)
    THEN LET name == NameBeforeBrace(line)
             last == line[Len(line)]
         IN  IF ~IsNumeric(last) THEN ParseRaises(m, "ValueError")
             ELSE IF name \notin DOMAIN m
                  THEN Parsed(Put(m, name, ListEntry(<<Float(last)>>)))
             ELSE IF m[name].kind # "list" THEN ParseRaises(m, "AttributeError")
             ELSE Parsed(Put(m, name, ListEntry(Append(m[name].vals, Float(last)))))
    ELSE IF StartsWithHash(line) THEN Parsed(m)
    ELSE IF Len(line) # 2 THEN Parsed(m)
    ELSE IF ~IsNumeric(line[2]) THEN ParseRaises(m, "ValueError")
    ELSE Parsed(Put(m, line[1].text, FloatEntry(Float(line[2]))))

mainvars == <<prog, pc, tasks, gathered, counts, semCap, sem, conns, results,
              replay, statuses, i, phase, issued, slept, exitStatus>>

\* `async with session.get(...) as resp: text = await resp.text()`: the
\* status of the response is not looked at
GetMetricsRespond ==
    /\ mstate = "called"
    /\ IF mhttp = NoStatus
       THEN /\ mstate' = "raised"
            /\ mexc' = "ClientConnectorError"
            /\ UNCHANGED <<mpos, metrics>>
       ELSE /\ mstate' = "parsing"
            /\ mpos' = 1
            /\ metrics' = <<>>
            /\ UNCHANGED mexc
    /\ UNCHANGED <<mainvars, pvars, mtext, mhttp>>

GetMetricsParseLine ==
    /\ mstate = "parsing"
    /\ mpos <= Len(mtext)
    /\ LET r == ParseLine(metrics, mtext[mpos])
       IN  IF r.exc # "none"
           THEN /\ mstate' = "raised"
                /\ mexc' = r.exc
                /\ UNCHANGED <<mpos, metrics>>
           ELSE /\ metrics' = r.m
                /\ mpos' = mpos + 1
                /\ UNCHANGED <<mstate, mexc>>
    /\ UNCHANGED <<mainvars, pvars, mtext, mhttp>>

GetMetricsReturn ==
    /\ mstate = "parsing"
    /\ mpos > Len(mtext)
    /\ mstate' = "returned"
    /\ UNCHANGED <<mainvars, pvars, mtext, mhttp, mpos, metrics, mexc>>

\* the first call of get_metrics of a run, on any text and status
InitMetrics ==
    /\ prog = "pressure"
    /\ pc = "hash_metrics_before"
    /\ tasks = <<>>
    /\ gathered = <<>>
    /\ counts = NoCounts
    /\ semCap = 0
    /\ sem = 0
    /\ conns = 0
    /\ results \in {<<TestResult("JWKS Load Test", b)>> : b \in BOOLEAN}
    /\ replay = NoReplay
    /\ statuses = <<>>
    /\ i = 0
    /\ phase = "top"
    /\ issued = 0
    /\ slept = 0
    /\ exitStatus = NoExit
    /\ mtext \in MetricTexts
    /\ mhttp \in MetricStatuses
    /\ mpos = 0
    /\ metrics = <<>>
    /\ mstate = "called"
    /\ mexc = "none"
    /\ pctLst = <<>>
    /\ pctSorted = <<>>
    /\ pctP = 0
    /\ pctK = 0
    /\ pctOut = 0
    /\ pctState = "idle"

NextMetrics ==
    \/ GetMetricsRespond
    \/ GetMetricsParseLine
    \/ GetMetricsReturn

SpecMetrics == InitMetrics /\ [][NextMetrics]_vars

(***************************************************************************)
(* Properties of get_metrics                                               *)
(***************************************************************************)
\* a line of the form `name value`: two tokens, no brace, numeric value
IsUnlabeledSample(line) ==
    /\ Len(line) = 2
    /\ line[1].kind = "word"
    /\ line[2].kind = "num"

\* a line of the form `name{labels} value`
IsLabeledSample(line) ==
    /\ Len(line) = 2
    /\ line[1].kind = "labeled"
    /\ line[2].kind = "num"

IsSample(line) == IsUnlabeledSample(line) \/ IsLabeledSample(line)

\* the values of the samples of name n in the first k lines, in file order
RECURSIVE SamplesOf(_, _, _)
SamplesOf(text, n, k) ==
    IF k = 0 THEN <<>>
    ELSE IF IsSample(text[k]) /\ text[k][1].text = n
         THEN Append(SamplesOf(text, n, k - 1), text[k][2].val)
         ELSE SamplesOf(text, n, k - 1)

EntryValues(m, n) == IF n \in DOMAIN m THEN m[n].vals ELSE <<>>

\* C17: parsing never raises because of a malformed line (wrong token count,
\* non-numeric value): such a line is skipped and the well-formed lines before
\* and after it still contribute, so a text of single-sample names parses to
\* those samples.
C17_MalformedLinesSkipped ==
    /\ mexc # "ValueError"
    /\ (mstate = "returned" /\ \A n \in AuthNames : Len(SamplesOf(mtext, n, Len(mtext))) <= 1)
            => \A n \in AuthNames :
                    EntryValues(metrics, n) = SamplesOf(mtext, n, Len(mtext))

\* C18: the snapshot entry of a metric name is the sequence of all samples of
\* that name in file order; a later line for the same name appends, never
\* overwrites or drops an earlier sample and never makes the parse fail.
C18_SamplesAccumulate ==
    /\ mexc # "AttributeError"
    /\ mstate = "returned" =>
        \A n \in AuthNames :
            EntryValues(metrics, n) = SamplesOf(mtext, n, Len(mtext))

C19_Step ==
    (mstate = "parsing" /\ mpos <= Len(mtext) /\ IsUnlabeledSample(mtext[mpos])) =>
        LET name == mtext[mpos][1].text
        IN  /\ mstate' = "parsing"
            /\ mpos' = mpos + 1
            /\ IF name \in AuthNames
               THEN /\ DOMAIN metrics' = (DOMAIN metrics) \cup {name}
                    /\ metrics'[name] = FloatEntry(mtext[mpos][2].val)
                    /\ \A n \in (DOMAIN metrics) \ {name} : metrics'[n] = metrics[n]
               ELSE metrics' = metrics

C20_Non2xxIsNotParsed ==
    (mhttp # NoStatus /\ mhttp \notin 200..299) =>
        mstate \notin {"parsing", "returned"}

(***************************************************************************)
(* load-login.py: pct.  The samples are latencies; small integers stand    *)
(* for them, only their order matters to pct.                              *)
(***************************************************************************)
MaxSamples == 3

SampleValues == 1..3

RECURSIVE SamplesOfLength(_)
SamplesOfLength(n) ==
    IF n = 0 THEN {<<>>}
    ELSE {Append(l, v) : l \in SamplesOfLength(n - 1), v \in SampleValues}

SampleLists == UNION {SamplesOfLength(n) : n \in 0..MaxSamples}

Percents == 0..100

\* x put at its place in the ascending sequence l
Insert(l, x) ==
    LET j == Cardinality({n \in DOMAIN l : l[n] <= x})
    IN  SubSeq(l, 1, j) \o <<x>> \o SubSeq(l, j + 1, Len(l))

\* sorted(lst)
RECURSIVE Sorted(_)
Sorted(l) ==
    IF l = <<>> THEN <<>>
    ELSE Insert(Sorted(SubSeq(l, 1, Len(l) - 1)), l[Len(l)])

\* int(round(n/d)) for d > 0: round() takes a tie to the even neighbour
RoundHalfEven(n, d) ==
    LET q == n \div d
        r == n % d
    IN  IF 2 * r < d THEN q
        ELSE IF 2 * r > d THEN q + 1
        ELSE IF q % 2 = 0 THEN q ELSE q + 1

\* a rank taken over the count instead of the last index
NearestRank_OverCount(p, n) == RoundHalfEven(p * n, 100)

\* int(round((p/100.0)*(len(lst)-1)))
NearestRank(p, n) == RoundHalfEven(p * (n - 1), 100)

\* lst[k]: a negative k counts from the end, IndexError outside -len..len-1
CanIndex(l, k) == k \in (0 - Len(l))..(Len(l) - 1)
Item(l, k) == IF k >= 0 THEN l[k + 1] ELSE l[Len(l) + k + 1]

PctSort ==
    /\ pctState = "called"
    /\ pctSorted' = Sorted(pctLst)
    /\ pctState' = "sorted"
    /\ UNCHANGED <<mainvars, mvars, pctLst, pctP, pctK, pctOut>>

PctIndex ==
    /\ pctState = "sorted"
    /\ pctK' = NearestRank(pctP, Len(pctSorted))
    /\ pctState' = "indexed"
    /\ UNCHANGED <<mainvars, mvars, pctLst, pctSorted, pctP, pctOut>>

PctReturn ==
    /\ pctState = "indexed"
    /\ IF CanIndex(pctSorted, pctK)
       THEN pctOut' = Item(pctSorted, pctK) /\ pctState' = "returned"
       ELSE pctState' = "raised" /\ UNCHANGED pctOut
    /\ UNCHANGED <<mainvars, mvars, pctLst, pctSorted, pctP, pctK>>

\* a call pct(lst, p) after the loop of main, on any samples and percent
InitPct ==
    /\ prog = "loadlogin"
    /\ pc = "ll_loop"
    /\ tasks = <<>>
    /\ gathered = <<>>
    /\ counts = NoCounts
    /\ semCap = 0
    /\ sem = 0
    /\ conns = 0
    /\ results = <<>>
    /\ replay = NoReplay
    /\ statuses = <<>>
    /\ i = 0
    /\ phase = "top"
    /\ issued = 0
    /\ slept = 0
    /\ exitStatus = NoExit
    /\ mtext = <<>>
    /\ mhttp = NoStatus
    /\ mpos = 0
    /\ metrics = <<>>
    /\ mstate = "idle"
    /\ mexc = "none"
    /\ pctLst \in SampleLists
    /\ pctSorted = <<>>
    /\ pctP \in Percents
    /\ pctK = 0
    /\ pctOut = 0
    /\ pctState = "called"

NextPct ==
    \/ PctSort
    \/ PctIndex
    \/ PctReturn

SpecPct == InitPct /\ [][NextPct]_vars

(***************************************************************************)
(* Properties of pct                                                       *)
(***************************************************************************)
IsMinOf(v, l) == (\E n \in DOMAIN l : l[n] = v) /\ (\A n \in DOMAIN l : v <= l[n])
IsMaxOf(v, l) == (\E n \in DOMAIN l : l[n] = v) /\ (\A n \in DOMAIN l : v >= l[n])

\* C21: for every non-empty sample sequence and every p in 0..100 the
\* nearest-rank index lies within the sequence, so pct does not fail and
\* returns one of the samples; for p = 0 it returns the minimum sample and
\* for p = 100 the maximum sample.
C21_PercentileWithinSamples ==
    pctLst # <<>> =>
        /\ pctState # "raised"
        /\ pctState \in {"indexed", "returned"} => pctK \in 0..(Len(pctLst) - 1)
        /\ pctState = "returned" =>
            /\ \E n \in DOMAIN pctLst : pctLst[n] = pctOut
            /\ pctP = 0 => IsMinOf(pctOut, pctLst)
            /\ pctP = 100 => IsMaxOf(pctOut, pctLst)

\* the maximum of an unsorted sequence with distinct extremes is returned
C21_Witness ==
    /\ pctState = "returned"
    /\ pctP = 100
    /\ pctLst = <<3, 1, 2>>
    /\ pctOut = 3

(***************************************************************************)
(* Progress.  The asyncio event loop runs every coroutine that is ready,   *)
(* and the synchronous loops run on.  Every request that was issued is     *)
(* eventually answered, fails at transport level or times out: the         *)
(* timeout is ClientTimeout(total=30) in test-hash-concurrency-extreme.py  *)
(* and the default total timeout of aiohttp in pressure-test.py.           *)
(***************************************************************************)
\* a request in flight resolves to a response, a transport failure or a timeout
Responds ==
    \/ \E k \in DOMAIN tasks : FetchJwksResolve(k)
    \/ \E k \in DOMAIN tasks : RegisterUserResolve(k)
    \/ \E k \in DOMAIN tasks : ExtResolve(k)
    \/ RateResolve
    \/ LLResolve

Fairness == WF_vars(Next) /\ WF_vars(Responds)

SpecLive == Init /\ [][Next]_vars /\ Fairness

\* every fan-out batch that was handed to gather reaches its join barrier
C22_BatchesReachJoin ==
    /\ (pc = "jwks_gather") ~> (pc = "jwks_classify")
    /\ (pc = "hash_gather") ~> (pc = "hash_classify")
    /\ (pc = "ext_gather") ~> (pc = "ext_classify")

\* every request of the gated batch gets its permit
C22_NoWaitForPermit ==
    \A k \in 1..NExt :
        (pc = "ext_gather" /\ tasks[k].st = "pending")
            ~> (pc = "ext_gather" /\ tasks[k].st = "acquired")

\* the scenario of a batch emits its TestResult
C22_ScenarioEmitsResult ==
    /\ (pc = "jwks_gather") ~> (ResultsOf("JWKS Load Test") # {})
    /\ (pc = "hash_gather") ~> (ResultsOf("Hash Concurrency Limiting") # {})

\* no scenario hangs: the run ends, by returning or with a traceback
C22_RunEnds == <>(pc \in {"exited", "crashed"})

\* C22: provided every issued request is eventually answered, fails at
\* transport level or times out, every fan-out batch eventually reaches its
\* join barrier, no request waits forever for a permit, and the scenario of
\* the batch eventually emits its TestResult.
C22_BatchesJoinAndReport ==
    /\ C22_BatchesReachJoin
    /\ C22_NoWaitForPermit
    /\ C22_ScenarioEmitsResult
====
